---- MODULE Spec2Model ----
(***************************************************************************)
(* Branching / measurement engine of multiverse/simulation.py.             *)
(*                                                                         *)
(* Numbers.  The program works on Python floats and complex numbers; the   *)
(* model works on exact rationals <<num, den>> in lowest terms.  A complex *)
(* amplitude is kept as its squared modulus p = |amp|^2 (a rational) and   *)
(* its phase ph in 0..3 (1, i, -1, -i); dividing by a positive norm keeps  *)
(* the phase and divides p by the norm squared.  Every nonzero quantity of *)
(* the model is far above EPS, so "x < EPS" is decided exactly and float   *)
(* rounding is not represented.                                            *)
(*                                                                         *)
(* Dicts.  A Python dict is a sequence of [k, v] records with distinct     *)
(* keys, in insertion order.  Labels (Python strings) are sequences of     *)
(* symbols, a qubit list is a sequence of 0-based indices.                 *)
(***************************************************************************)
EXTENDS Integers, Sequences, FiniteSets, TLC

\* ---------------------------------------------------------------- bounds
MaxNodes == 5        \* capacity of the node arena (nodes ever created)
MaxHooks == 2        \* registrations per hook registry
MaxSteps == 3        \* largest steps argument of travel_back
MaxTrail == 3        \* longest trail an Observer builds

\* ------------------------------------------------------ program constants
EPSDen == 1000000000 \* EPS = 1 / EPSDen

\* ------------------------------------------------------------- rationals
RECURSIVE GCD(_, _)
GCD(a, b) == IF b = 0 THEN a ELSE GCD(b, a % b)

Rat(n, d) == LET g == GCD(n, d) IN IF g = 0 THEN <<0, 1>> ELSE <<n \div g, d \div g>>

RZero == <<0, 1>>
ROne == <<1, 1>>
RAdd(x, y) == Rat(x[1] * y[2] + y[1] * x[2], x[2] * y[2])
RMul(x, y) == Rat(x[1] * y[1], x[2] * y[2])
RDiv(x, y) == Rat(x[1] * y[2], x[2] * y[1])

\* x < EPS for a non-negative rational x, without leaving 32 bits
LessEPS(x) == x[1] = 0 \/ EPSDen <= (x[2] - 1) \div x[1]

\* ------------------------------------------------------------ amplitudes
Amp(p, ph) == [p |-> p, ph |-> ph]
AmpZero == Amp(RZero, 0)

\* abs(amp) ** 2
AbsSq(a) == a.p

\* amp / norm, norm = norm_sq ** 0.5 > 0
AmpDiv(a, norm_sq) == IF a.p[1] = 0 THEN AmpZero ELSE Amp(RDiv(a.p, norm_sq), a.ph)

\* abs(amp - 1.0) < EPS
AmpNearOne(a) == a.ph = 0 /\ a.p = ROne

\* abs(amp) > EPS
AmpAboveEPS(a) == a.p[1] # 0

\* ----------------------------------------------------------------- dicts
KV(k, v) == [k |-> k, v |-> v]
Keys(d) == {d[i].k : i \in 1..Len(d)}
KeyList(d) == [i \in 1..Len(d) |-> d[i].k]
Values(d) == [i \in 1..Len(d) |-> d[i].v]
Has(d, k) == \E i \in 1..Len(d) : d[i].k = k
Get(d, k) == d[CHOOSE i \in 1..Len(d) : d[i].k = k].v
Put(d, k, v) ==
    IF Has(d, k) THEN [i \in 1..Len(d) |-> IF d[i].k = k THEN KV(k, v) ELSE d[i]]
    ELSE Append(d, KV(k, v))

RECURSIVE SumP(_, _)
SumP(d, i) == IF i > Len(d) THEN RZero ELSE RAdd(AbsSq(d[i].v), SumP(d, i + 1))

\* -------------------------------------------------------- QuantumSystem
\* sum(abs(a) ** 2 for a in self.amplitudes.values())
NormSq(amps) == SumP(amps, 1)

\* mutant: the zero-norm test is missing
NormalizeRaisesNever(amps) == FALSE

NormalizeRaises(amps) == LessEPS(NormSq(amps))

Normalize(amps) ==
    [i \in 1..Len(amps) |-> KV(amps[i].k, AmpDiv(amps[i].v, NormSq(amps)))]

NumQubitsRaises(amps) == Cardinality({Len(k) : k \in Keys(amps)}) > 1

NumQubits(amps) ==
    IF amps = <<>> THEN 0 ELSE CHOOSE n \in {Len(k) : k \in Keys(amps)} : TRUE

Probabilities(amps) == [i \in 1..Len(amps) |-> KV(amps[i].k, AbsSq(amps[i].v))]

\* ''.join(state[i] for i in qubits); raises IndexError on an index past the end
ProjRaises(state, qubits) == \E j \in 1..Len(qubits) : qubits[j] >= Len(state)

Proj(state, qubits) == [j \in 1..Len(qubits) |-> state[qubits[j] + 1]]

\* mutant: the probability of a repeated projection overwrites instead of adding
RECURSIVE SubsetProbsNoSum(_, _, _, _)
SubsetProbsNoSum(amps, qubits, i, result) ==
    IF i > Len(amps) THEN result
    ELSE SubsetProbsNoSum(amps, qubits, i + 1,
                          Put(result, Proj(amps[i].k, qubits), AbsSq(amps[i].v)))

\* subset_probabilities: result[bits] = result.get(bits, 0.0) + abs(amp) ** 2
RECURSIVE SubsetProbsFrom(_, _, _, _)
SubsetProbsFrom(amps, qubits, i, result) ==
    IF i > Len(amps) THEN result
    ELSE LET bits == Proj(amps[i].k, qubits)
             old == IF Has(result, bits) THEN Get(result, bits) ELSE RZero
         IN SubsetProbsFrom(amps, qubits, i + 1,
                            Put(result, bits, RAdd(old, AbsSq(amps[i].v))))

SubsetProbabilitiesRaises(amps, qubits) ==
    NumQubitsRaises(amps) \/ \E i \in 1..Len(amps) : ProjRaises(amps[i].k, qubits)

SubsetProbabilities(amps, qubits) == SubsetProbsFrom(amps, qubits, 1, <<>>)

\* Optional[str]
NoLabel == [some |-> FALSE, k |-> <<>>]
SomeLabel(k) == [some |-> TRUE, k |-> k]

RECURSIVE IsDefiniteFrom(_, _, _)
IsDefiniteFrom(amps, i, definite) ==
    IF i > Len(amps) THEN definite
    ELSE IF AmpNearOne(amps[i].v)
         THEN IF definite.some THEN NoLabel
              ELSE IsDefiniteFrom(amps, i + 1, SomeLabel(amps[i].k))
         ELSE IF AmpAboveEPS(amps[i].v) THEN NoLabel
              ELSE IsDefiniteFrom(amps, i + 1, definite)

IsDefinite(amps) == IsDefiniteFrom(amps, 1, NoLabel)

\* is_definite_subset; kind "raise" is the IndexError of state[i]
RECURSIVE IsDefiniteSubsetFrom(_, _, _, _)
IsDefiniteSubsetFrom(amps, qubits, i, seen) ==
    IF i > Len(amps) THEN [kind |-> "return", val |-> seen]
    ELSE IF AmpAboveEPS(amps[i].v)
         THEN IF ProjRaises(amps[i].k, qubits) THEN [kind |-> "raise", val |-> NoLabel]
              ELSE LET bits == Proj(amps[i].k, qubits)
                   IN IF ~seen.some
                      THEN IsDefiniteSubsetFrom(amps, qubits, i + 1, SomeLabel(bits))
                      ELSE IF bits # seen.k THEN [kind |-> "return", val |-> NoLabel]
                           ELSE IsDefiniteSubsetFrom(amps, qubits, i + 1, seen)
         ELSE IsDefiniteSubsetFrom(amps, qubits, i + 1, seen)

IsDefiniteSubset(amps, qubits) == IsDefiniteSubsetFrom(amps, qubits, 1, NoLabel)

\* survivors of collapse_on_subset, in the parent's order
RECURSIVE SurvivorsFrom(_, _, _, _)
SurvivorsFrom(amps, qubits, outcome, i) ==
    IF i > Len(amps) THEN <<>>
    ELSE LET rest == SurvivorsFrom(amps, qubits, outcome, i + 1)
         IN IF Proj(amps[i].k, qubits) = outcome THEN <<amps[i]>> \o rest ELSE rest

\* collapse_on_subset: err is "none", "ValueError" or "IndexError"
CollapseOnSubset(amps, qubits, outcome) ==
    IF NumQubitsRaises(amps) THEN [err |-> "ValueError", sys |-> <<>>]
    ELSE IF \E i \in 1..Len(amps) : ProjRaises(amps[i].k, qubits)
         THEN [err |-> "IndexError", sys |-> <<>>]
    ELSE LET survivors == SurvivorsFrom(amps, qubits, outcome, 1)
         IN IF survivors = <<>> THEN [err |-> "ValueError", sys |-> <<>>]
            ELSE IF NormalizeRaises(survivors) THEN [err |-> "ValueError", sys |-> <<>>]
            ELSE [err |-> "none", sys |-> Normalize(survivors)]

\* mutant: the child of a whole-state measurement keeps the parent's amplitudes
CollapsedAmplitudesKeeps(amps, state) == amps

\* {s: (1+0j if s == state else 0j) for s in self.system.amplitudes}
CollapsedAmplitudes(amps, state) ==
    [i \in 1..Len(amps) |->
        KV(amps[i].k, IF amps[i].k = state THEN Amp(ROne, 0) ELSE AmpZero)]

\* --------------------------------------------------------------- inputs
Observables == {"a", "b"}

\* Optional[List[int]]
NoQubits == [given |-> FALSE, list |-> <<>>]
QubitList(l) == [given |-> TRUE, list |-> l]
QubitArgs ==
    {NoQubits, QubitList(<<>>), QubitList(<<0>>), QubitList(<<1>>),
     QubitList(<<0, 0>>), QubitList(<<2>>)}

A0 == AmpZero
A1 == Amp(ROne, 0)
Ai == Amp(ROne, 1)
A2 == Amp(<<2, 1>>, 0)

\* amplitude dicts handed to QuantumSystem(...) by the caller
RawSystems ==
    { <<KV(<<0, 0>>, A1), KV(<<1, 1>>, A1)>>,
      <<KV(<<0, 0>>, Ai), KV(<<1, 1>>, A1)>>,
      <<KV(<<0, 0>>, A1), KV(<<0, 1>>, A1), KV(<<1, 1>>, A2)>>,
      <<KV(<<0, 0>>, A1), KV(<<0, 1>>, A0), KV(<<1, 1>>, A1)>>,
      <<KV(<<0>>, A1), KV(<<1, 0>>, A1)>>,
      <<KV(<<0>>, A1), KV(<<1>>, A0)>>,
      <<KV(<<0>>, Ai)>>,
      <<KV(<<0, 0>>, A0), KV(<<1, 1>>, A0)>>,
      <<>> }

RootWeights == {ROne}

HookNames == {"h"}

\* ---------------------------------------------------------------- state
VARIABLES
    nodes,   \* every Universe created so far, in creation order
    hooks,   \* DECOHERENCE_MODELS, UNIVERSE_CREATION_OBSERVERS, POST_MEASUREMENT_HOOKS
    calls,   \* hook invocations made by the last operation, in order
    last,    \* the last operation: its arguments and how it ended
    uid,     \* the id field of every Universe, where a specification draws it
    observer \* the time-travelling Observer, once one is constructed

vars == <<nodes, hooks, calls, last, uid, observer>>

\* no Observer constructed yet
NoObserver ==
    [made |-> FALSE, current |-> 0, trail |-> <<>>, mode |-> "none", left |-> 0]

NoPending == [set |-> FALSE, tab |-> <<>>]
Pending(tab) == [set |-> TRUE, tab |-> tab]

Created == [ev |-> "created", obs |-> "", qubits |-> <<>>, outcomes |-> <<>>]
Measured(obs, qubits, outcomes) ==
    [ev |-> "measure", obs |-> obs, qubits |-> qubits, outcomes |-> outcomes]

\* Universe(system=..., weight=..., history=..., measured_observables=...)
Universe(system, weight, history, measured) ==
    [system |-> system, weight |-> weight, history |-> history,
     measured |-> measured, children |-> <<>>, pending |-> NoPending]

Op(op, node, obs, qubits, state, outcome, ret) ==
    [op |-> op, node |-> node, obs |-> obs, qubits |-> qubits, state |-> state,
     outcome |-> outcome, ret |-> ret]

Call(kind, hook, node, state, obs, stored, view) ==
    [kind |-> kind, hook |-> hook, node |-> node, state |-> state, obs |-> obs,
     stored |-> stored,
     recorded |-> obs \in view.measured,
     hasPending |-> view.pending.set,
     nchildren |-> Len(view.children)]

Init ==
    /\ nodes = <<>>
    /\ hooks = [deco |-> <<>>, create |-> <<>>, post |-> <<>>]
    /\ calls = <<>>
    /\ last = Op("init", 0, "", NoQubits, <<>>, "return", <<>>)
    /\ uid = <<>>
    /\ observer = NoObserver

\* --------------------------------------------------------- registration
RegisterDecoherenceModel(fn) ==
    /\ Len(hooks.deco) < MaxHooks
    /\ hooks' = [hooks EXCEPT !.deco = Append(@, fn)]
    /\ calls' = <<>>
    /\ last' = Op("register_decoherence_model", 0, "", NoQubits, <<>>, "return", <<>>)
    /\ UNCHANGED nodes

RegisterUniverseCreationObserver(fn) ==
    /\ Len(hooks.create) < MaxHooks
    /\ hooks' = [hooks EXCEPT !.create = Append(@, fn)]
    /\ calls' = <<>>
    /\ last' = Op("register_universe_creation_observer", 0, "", NoQubits, <<>>, "return", <<>>)
    /\ UNCHANGED nodes

RegisterPostMeasurementHook(fn) ==
    /\ Len(hooks.post) < MaxHooks
    /\ hooks' = [hooks EXCEPT !.post = Append(@, fn)]
    /\ calls' = <<>>
    /\ last' = Op("register_post_measurement_hook", 0, "", NoQubits, <<>>, "return", <<>>)
    /\ UNCHANGED nodes

\* ------------------------------------------------------------- the root
\* root = Universe(system=QuantumSystem(raw), weight=w)
CreateRoot(raw, w) ==
    /\ nodes = <<>>
    /\ calls' = <<>>
    /\ UNCHANGED hooks
    /\ IF NormalizeRaises(raw)
       THEN /\ nodes' = nodes
            /\ last' = Op("create", 0, "", NoQubits, <<>>, "ValueError", <<>>)
       ELSE /\ nodes' = <<Universe(Normalize(raw), w, <<Created>>, {})>>
            /\ last' = Op("create", 1, "", NoQubits, <<>>, "return", <<>>)

\* ---------------------------------------------------- Measurement.apply
\* list(range(n_qubits))
Range0(n) == [i \in 1..n |-> i - 1]

\* qubits = self.qubits if self.qubits is not None else list(range(n_qubits))
EffectiveQubits(qarg, n) == IF qarg.given THEN qarg.list ELSE Range0(n)

\* not qubits or len(qubits) == n_qubits
IsFullMeasurement(qubits, n) == qubits = <<>> \/ Len(qubits) = n

\* for state, prob in probs.items(): if prob < EPS: continue; pending[state] = (prob, qubits)
RECURSIVE PendingFrom(_, _, _)
PendingFrom(probs, qubits, i) ==
    IF i > Len(probs) THEN <<>>
    ELSE LET rest == PendingFrom(probs, qubits, i + 1)
         IN IF LessEPS(probs[i].v) THEN rest
            ELSE <<KV(probs[i].k, [prob |-> probs[i].v, qubits |-> qubits])>> \o rest

\* mutant: stale children survive a new measurement
ClearBranchesKeepChildren(u) == [u EXCEPT !.pending = NoPending]

\* universe._pending_branches = None; universe.child_universes.clear()
ClearBranches(u) == [u EXCEPT !.pending = NoPending, !.children = <<>>]

\* mutant: the measured node itself collapses onto its first outcome
RecordMeasurementCollapses(u, obs, qubits, pending) ==
    [u EXCEPT !.measured = @ \cup {obs},
              !.history = Append(@, Measured(obs, qubits, KeyList(pending))),
              !.pending = Pending(pending),
              !.system = IF pending = <<>> THEN @ ELSE CollapsedAmplitudes(@, pending[1].k)]

\* mutant: the history is replaced by the new entry, not extended
RecordMeasurementRewrites(u, obs, qubits, pending) ==
    [u EXCEPT !.measured = @ \cup {obs},
              !.history = <<Measured(obs, qubits, KeyList(pending))>>,
              !.pending = Pending(pending)]

\* mutant: the measured set is replaced, not extended
RecordMeasurementForgets(u, obs, qubits, pending) ==
    [u EXCEPT !.measured = {obs},
              !.history = Append(@, Measured(obs, qubits, KeyList(pending))),
              !.pending = Pending(pending)]

\* measured_observables.add, history.append, _pending_branches = pending
RecordMeasurement(u, obs, qubits, pending) ==
    [u EXCEPT !.measured = @ \cup {obs},
              !.history = Append(@, Measured(obs, qubits, KeyList(pending))),
              !.pending = Pending(pending)]

\* mutant: the hooks run before the measurement is recorded
PostHookViewEarly(cleared, recorded) == cleared

\* the node as a post-measurement hook finds it when it is called
PostHookView(cleared, recorded) == recorded

\* ------------------------------------------------------- hooks that raise
\* the registered callables whose body raises an exception when called
RaisingHooks == {"boom"}

HookRaises(fn) == fn \in RaisingHooks

\* mutant: the exception of a hook leaves the call site
EscapesUncaught(fn) == HookRaises(fn)

\* try: hook(...) except Exception as e: logger.warning(...)
\* the exception of a hook is caught at the call site: none leaves it
Escapes(fn) == FALSE

\* the calls of a hook loop that are made: all of them, or those up to the
\* first one whose exception leaves the loop
RECURSIVE RunHooks(_, _)
RunHooks(cs, i) ==
    IF i > Len(cs) THEN [calls |-> cs, escaped |-> FALSE]
    ELSE IF Escapes(cs[i].hook) THEN [calls |-> SubSeq(cs, 1, i), escaped |-> TRUE]
    ELSE RunHooks(cs, i + 1)

\* for hook in POST_MEASUREMENT_HOOKS: hook(universe, self.observable_name)
PostCalls(post, n, obs, view) ==
    [i \in 1..Len(post) |-> Call("post", post[i], n, <<>>, obs, FALSE, view)]

ApplyEnd(outcome, u, cs) == [outcome |-> outcome, u |-> u, calls |-> cs]

\* mutant: the repeated-observable test is missing
AlreadyMeasuredNever(u, obs) == FALSE

\* the already-measured test of apply
AlreadyMeasured(u, obs) == obs \in u.measured

\* mutant: the subset test tolerates an index past the label, so the
\* IndexError comes from subset_probabilities, after the branches are cleared
DefiniteCheckTolerant(amps, qubits, n) ==
    IF IsFullMeasurement(qubits, n)
    THEN IF IsDefinite(amps).some THEN "definite" ELSE "go"
    ELSE LET d == IsDefiniteSubset(amps, qubits)
         IN IF d.kind = "raise" THEN "go"
            ELSE IF d.val.some THEN "definite" ELSE "go"

\* the definite test of apply: "definite", "raise" or "go"
DefiniteCheck(amps, qubits, n) ==
    IF IsFullMeasurement(qubits, n)
    THEN IF IsDefinite(amps).some THEN "definite" ELSE "go"
    ELSE LET d == IsDefiniteSubset(amps, qubits)
         IN IF d.kind = "raise" THEN "raise"
            ELSE IF d.val.some THEN "definite" ELSE "go"

Apply(u, n, obs, qarg, post) ==
    IF AlreadyMeasured(u, obs) THEN ApplyEnd("already_measured", u, <<>>)
    ELSE IF NumQubitsRaises(u.system) THEN ApplyEnd("ValueError", u, <<>>)
    ELSE
      LET nq == NumQubits(u.system)
          qubits == EffectiveQubits(qarg, nq)
          check == DefiniteCheck(u.system, qubits, nq)
          cleared == ClearBranches(u)
      IN
      IF check = "definite" THEN ApplyEnd("definite", u, <<>>)
      ELSE IF check = "raise" THEN ApplyEnd("IndexError", u, <<>>)
      ELSE IF ~IsFullMeasurement(qubits, nq) /\ SubsetProbabilitiesRaises(u.system, qubits)
           THEN ApplyEnd("IndexError", cleared, <<>>)
      ELSE
        LET probs == IF IsFullMeasurement(qubits, nq) THEN Probabilities(u.system)
                     ELSE SubsetProbabilities(u.system, qubits)
            pending == PendingFrom(probs, qubits, 1)
            recorded == RecordMeasurement(cleared, obs, qubits, pending)
            ran == RunHooks(PostCalls(post, n, obs, PostHookView(cleared, recorded)), 1)
        IN IF pending = <<>> THEN ApplyEnd("no_branches", cleared, <<>>)
           ELSE IF ran.escaped THEN ApplyEnd("HookError", recorded, ran.calls)
           ELSE ApplyEnd("recorded", recorded, ran.calls)

\* node.measure(obs, qubits)
Measure(n, obs, qarg) ==
    /\ n \in 1..Len(nodes)
    /\ LET r == Apply(nodes[n], n, obs, qarg, hooks.post)
       IN /\ nodes' = [nodes EXCEPT ![n] = r.u]
          /\ calls' = r.calls
          /\ last' = Op("measure", n, obs, qarg, <<>>, r.outcome, <<>>)
    /\ UNCHANGED hooks

\* ------------------------------------------------ Universe._expand_child
\* qubits is None or len(qubits) == self.system.num_qubits
ExpandIsFull(qubits, n) == Len(qubits) = n

\* mutant: the child takes the outcome probability, not the cumulative weight
ChildWeightNoParent(weight, prob) == prob

\* child_weight = self.weight * prob
ChildWeight(weight, prob) == RMul(weight, prob)

\* the amplitude state of the child: err is "none", "ValueError" or "IndexError"
CollapseFor(amps, qubits, state) ==
    IF NumQubitsRaises(amps) THEN [err |-> "ValueError", sys |-> <<>>]
    ELSE IF ExpandIsFull(qubits, NumQubits(amps))
         THEN LET collapsed == CollapsedAmplitudes(amps, state)
              IN IF NormalizeRaises(collapsed) THEN [err |-> "ValueError", sys |-> <<>>]
                 ELSE [err |-> "none", sys |-> Normalize(collapsed)]
         ELSE CollapseOnSubset(amps, qubits, state)

\* mutant: the child starts with the default history and measured set
NewChildFreshHistory(u, sys, prob) == Universe(sys, ChildWeight(u.weight, prob), <<Created>>, {})

\* mutant: the child keeps the whole weight of its parent
NewChildFullWeight(u, sys, prob) == Universe(sys, u.weight, u.history, u.measured)

\* Universe(system=new_system, weight=child_weight, history=list(self.history), ...)
NewChild(u, sys, prob) == Universe(sys, ChildWeight(u.weight, prob), u.history, u.measured)

\* mutant: the transforms run after the child is stored
DecoCallsAfterStore(deco, c, state, parent) ==
    [i \in 1..Len(deco) |-> Call("deco", deco[i], c, state, "", TRUE, parent)]

\* for decoherence_fn in DECOHERENCE_MODELS: decoherence_fn(child)
DecoCalls(deco, c, state, parent) ==
    [i \in 1..Len(deco) |-> Call("deco", deco[i], c, state, "", Has(parent.children, state), parent)]

\* mutant: the observers run before the child is stored
CreateCallsBeforeStore(create, c, state, parent) ==
    [i \in 1..Len(create) |-> Call("create", create[i], c, state, "", FALSE, parent)]

\* for obs in UNIVERSE_CREATION_OBSERVERS: obs(child, state)
CreateCalls(create, c, state, parent) ==
    [i \in 1..Len(create) |-> Call("create", create[i], c, state, "", Has(parent.children, state), parent)]

\* self.child_universes[state] = child
StoreChild(u, state, c) == [u EXCEPT !.children = Put(@, state, c)]

ExpandEnd(err, ns, cs, child) == [err |-> err, nodes |-> ns, calls |-> cs, child |-> child]

\* mutant: a stored child is looked up before the pending table is tested
NoPendingBranchUnlessStored(u, state) ==
    (~u.pending.set \/ ~Has(u.pending.tab, state)) /\ ~Has(u.children, state)

\* the first test of _expand_child
NoPendingBranch(u, state) == ~u.pending.set \/ ~Has(u.pending.tab, state)

ExpandChildOp(ns, hk, n, state) ==
    LET u == ns[n] IN
    IF NoPendingBranch(u, state) THEN ExpandEnd("ValueError", ns, <<>>, 0)
    ELSE IF Has(u.children, state) THEN ExpandEnd("none", ns, <<>>, Get(u.children, state))
    ELSE
      LET entry == Get(u.pending.tab, state)
          col == CollapseFor(u.system, entry.qubits, state)
          c == Len(ns) + 1
          stored == StoreChild(u, state, c)
          made == Append(ns, NewChild(u, col.sys, entry.prob))
          deco == RunHooks(DecoCalls(hk.deco, c, state, u), 1)
          create == RunHooks(CreateCalls(hk.create, c, state, stored), 1)
      IN IF col.err # "none" THEN ExpandEnd(col.err, ns, <<>>, 0)
         ELSE IF deco.escaped THEN ExpandEnd("HookError", made, deco.calls, 0)
         ELSE IF create.escaped
              THEN ExpandEnd("HookError", [made EXCEPT ![n] = stored],
                             deco.calls \o create.calls, 0)
         ELSE ExpandEnd("none", [made EXCEPT ![n] = stored],
                        deco.calls \o create.calls, c)

\* how many nodes _expand_child(state) on node n would add
Fresh(u, state) == IF ~NoPendingBranch(u, state) /\ ~Has(u.children, state) THEN 1 ELSE 0

\* node._expand_child(state)
ExpandChild(n, state) ==
    /\ n \in 1..Len(nodes)
    /\ Len(nodes) + Fresh(nodes[n], state) <= MaxNodes
    /\ LET r == ExpandChildOp(nodes, hooks, n, state)
       IN /\ nodes' = r.nodes
          /\ calls' = r.calls
          /\ last' = Op("_expand_child", n, "", NoQubits, state,
                        IF r.err = "none" THEN "return" ELSE r.err,
                        IF r.err = "none" THEN <<r.child>> ELSE <<>>)
    /\ UNCHANGED hooks

\* ------------------------------------------------------ Universe.children
\* for state in self._pending_branches: if state not in self.child_universes: ...
RECURSIVE ChildrenFrom(_, _, _, _, _)
ChildrenFrom(ns, hk, n, i, cs) ==
    LET tab == ns[n].pending.tab IN
    IF i > Len(tab)
    THEN [err |-> "none", nodes |-> [ns EXCEPT ![n].pending = NoPending], calls |-> cs]
    ELSE IF Has(ns[n].children, tab[i].k) THEN ChildrenFrom(ns, hk, n, i + 1, cs)
    ELSE LET r == ExpandChildOp(ns, hk, n, tab[i].k)
         IN IF r.err # "none"
            THEN [err |-> r.err, nodes |-> r.nodes, calls |-> cs \o r.calls]
            ELSE ChildrenFrom(r.nodes, hk, n, i + 1, cs \o r.calls)

ChildrenOp(ns, hk, n) ==
    IF ~ns[n].pending.set THEN [err |-> "none", nodes |-> ns, calls |-> <<>>]
    ELSE ChildrenFrom(ns, hk, n, 1, <<>>)

FreshAll(u) == Cardinality({i \in 1..Len(u.pending.tab) : ~Has(u.children, u.pending.tab[i].k)})

\* node.children()
Children(n) ==
    /\ n \in 1..Len(nodes)
    /\ Len(nodes) + FreshAll(nodes[n]) <= MaxNodes
    /\ LET r == ChildrenOp(nodes, hooks, n)
       IN /\ nodes' = r.nodes
          /\ calls' = r.calls
          /\ last' = Op("children", n, "", NoQubits, <<>>,
                        IF r.err = "none" THEN "return" ELSE r.err,
                        IF r.err = "none" THEN Values(r.nodes[n].children) ELSE <<>>)
    /\ UNCHANGED hooks

\* ------------------------------------------------------- Universe.to_dict
\* mutant: the snapshot expands the pending tables too
ExpandsAlways(expand_lazy) == TRUE

\* if expand_lazy: children = self.children()
\* else: children = list(self.child_universes.values())
Expands(expand_lazy) == expand_lazy

\* the dict of one node: {"id", "weight", "system", "history",
\* "measured_observables", "children"}; the arena index stands for the id
NodeDict(n, u, children) ==
    [id |-> n, weight |-> u.weight, system |-> u.system, history |-> u.history,
     measured_observables |-> u.measured, children |-> children]

ToDictEnd(err, ns, cs, out) == [err |-> err, nodes |-> ns, calls |-> cs, out |-> out]

\* the dict of the subtree of n, each node with the dicts of the children
\* in its child map: "children": [c.to_dict(...) for c in children]
RECURSIVE TreeDict(_, _)
TreeDict(ns, n) ==
    NodeDict(n, ns[n],
             [i \in 1..Len(ns[n].children) |-> TreeDict(ns, ns[n].children[i].v)])

\* the calls of to_dict in the order they are made, the nodes still to
\* visit in todo: a node takes its children (expanding them if asked) and
\* its children are visited, each with its own subtree, before what follows;
\* r is what taking the children of the head of todo gave
RECURSIVE ToDictWalk(_, _, _, _, _)
ToDictVisit(r, hk, todo, expand_lazy, cs) ==
    IF r.err # "none" THEN ToDictEnd(r.err, r.nodes, cs \o r.calls, <<>>)
    ELSE ToDictWalk(r.nodes, hk,
                    Values(r.nodes[Head(todo)].children) \o Tail(todo),
                    expand_lazy, cs \o r.calls)

ToDictWalk(ns, hk, todo, expand_lazy, cs) ==
    IF todo = <<>> THEN ToDictEnd("none", ns, cs, <<>>)
    ELSE ToDictVisit(IF Expands(expand_lazy) THEN ChildrenOp(ns, hk, Head(todo))
                     ELSE [err |-> "none", nodes |-> ns, calls |-> <<>>],
                     hk, todo, expand_lazy, cs)

\* return {...}: the dict is built once every child is taken
ToDictReturn(w, n) ==
    IF w.err # "none" THEN w
    ELSE ToDictEnd("none", w.nodes, w.calls, TreeDict(w.nodes, n))

\* node.to_dict(expand_lazy=...)
ToDictOp(ns, hk, n, expand_lazy) ==
    ToDictReturn(ToDictWalk(ns, hk, <<n>>, expand_lazy, <<>>), n)

\* the name of the call in the operation log
ToDictName(expand_lazy) ==
    IF expand_lazy THEN "to_dict(expand_lazy=True)" ELSE "to_dict(expand_lazy=False)"

\* the state after a to_dict that ended as r
ToDictDone(r, n, expand_lazy) ==
    /\ Len(r.nodes) <= MaxNodes
    /\ nodes' = r.nodes
    /\ calls' = r.calls
    /\ last' = Op(ToDictName(expand_lazy), n, "", NoQubits, <<>>,
                  IF r.err = "none" THEN "return" ELSE r.err,
                  IF r.err = "none" THEN <<r.out>> ELSE <<>>)

\* node.to_dict(expand_lazy=...); dump_multiverse(node, path, expand_lazy=...)
\* writes this dict to a file
ToDict(n, expand_lazy) ==
    /\ n \in 1..Len(nodes)
    /\ ToDictDone(ToDictOp(nodes, hooks, n, expand_lazy), n, expand_lazy)
    /\ UNCHANGED hooks

\* ---------------------------------------------------------- specification
\* a step of the engine alone: no id is drawn and no Observer moves
Engine == UNCHANGED <<uid, observer>>

Labels == {<<0>>, <<1>>, <<0, 0>>, <<0, 1>>, <<1, 0>>, <<1, 1>>}

\* the engine without plugins: the caller builds a root, measures and expands
Next ==
    \/ \E raw \in RawSystems, w \in RootWeights : CreateRoot(raw, w) /\ Engine
    \/ \E n \in 1..MaxNodes, obs \in Observables, q \in QubitArgs : Measure(n, obs, q) /\ Engine
    \/ \E n \in 1..MaxNodes : Children(n) /\ Engine

Spec == Init /\ [][Next]_vars

\* the engine with plugins registered while it runs
HookRawSystems ==
    { <<KV(<<0, 0>>, A1), KV(<<1, 1>>, A1)>>,
      <<KV(<<0>>, A1), KV(<<1, 0>>, A1)>> }
HookQubitArgs == {NoQubits, QubitList(<<>>), QubitList(<<0>>), QubitList(<<2>>)}

NextHooks ==
    \/ \E raw \in HookRawSystems, w \in RootWeights : CreateRoot(raw, w) /\ Engine
    \/ \E fn \in HookNames : RegisterDecoherenceModel(fn) /\ Engine
    \/ \E fn \in HookNames : RegisterUniverseCreationObserver(fn) /\ Engine
    \/ \E fn \in HookNames : RegisterPostMeasurementHook(fn) /\ Engine
    \/ \E n \in 1..MaxNodes, obs \in Observables, q \in HookQubitArgs : Measure(n, obs, q) /\ Engine
    \/ \E n \in 1..MaxNodes : Children(n) /\ Engine

SpecHooks == Init /\ [][NextHooks]_vars

\* the engine with plugins of which some raise
RaiseRawSystems == { <<KV(<<0, 0>>, A1), KV(<<1, 1>>, A1)>> }
RaiseQubitArgs == {NoQubits, QubitList(<<0>>)}
RaiseObservables == {"a"}

NextRaise ==
    \/ \E raw \in RaiseRawSystems, w \in RootWeights : CreateRoot(raw, w) /\ Engine
    \/ \E fn \in HookNames \cup RaisingHooks : RegisterDecoherenceModel(fn) /\ Engine
    \/ \E fn \in HookNames \cup RaisingHooks : RegisterUniverseCreationObserver(fn) /\ Engine
    \/ \E fn \in HookNames \cup RaisingHooks : RegisterPostMeasurementHook(fn) /\ Engine
    \/ \E n \in 1..MaxNodes, obs \in RaiseObservables, q \in RaiseQubitArgs : Measure(n, obs, q) /\ Engine
    \/ \E n \in 1..MaxNodes : Children(n) /\ Engine

SpecRaise == Init /\ [][NextRaise]_vars

\* the engine with serialization and a creation observer
DumpRawSystems ==
    { <<KV(<<0, 0>>, A1), KV(<<1, 1>>, A1)>>,
      <<KV(<<0, 0>>, A1), KV(<<0, 1>>, A1), KV(<<1, 1>>, A2)>> }
DumpQubitArgs == {NoQubits, QubitList(<<>>), QubitList(<<0>>), QubitList(<<1>>)}

NextDump ==
    \/ \E raw \in DumpRawSystems, w \in RootWeights : CreateRoot(raw, w) /\ Engine
    \/ \E fn \in HookNames : RegisterUniverseCreationObserver(fn) /\ Engine
    \/ \E n \in 1..MaxNodes, obs \in Observables, q \in DumpQubitArgs : Measure(n, obs, q) /\ Engine
    \/ \E n \in 1..MaxNodes : Children(n) /\ Engine
    \/ \E n \in 1..MaxNodes, expand_lazy \in BOOLEAN : ToDict(n, expand_lazy) /\ Engine

SpecDump == Init /\ [][NextDump]_vars

\* ------------------------------------------------------------ Universe.id
\* id: str = field(default_factory=lambda: str(uuid.uuid4())[:8])
\* the first 8 hex digits of a random UUID: any 8-digit string can come out
\* of any draw; two strings stand for the 16^8
IdValues == {"0e289e17", "11e67b7f"}

\* the ways to draw k ids in a row
RECURSIVE IdSeqs(_)
IdSeqs(k) ==
    IF k = 0 THEN {<<>>}
    ELSE {Append(s, i) : s \in IdSeqs(k - 1), i \in IdValues}

\* every Universe the step constructs draws its id
DrawIds == uid' \in {uid \o s : s \in IdSeqs(Len(nodes') - Len(uid))}

Identified == DrawIds /\ UNCHANGED observer

\* the engine with the id of every node
IdRawSystems == { <<KV(<<0, 0>>, A1), KV(<<1, 1>>, A1)>> }
IdQubitArgs == {NoQubits, QubitList(<<0>>)}

NextIds ==
    \/ \E raw \in IdRawSystems, w \in RootWeights : CreateRoot(raw, w) /\ Identified
    \/ \E n \in 1..MaxNodes, obs \in Observables, q \in IdQubitArgs : Measure(n, obs, q) /\ Identified
    \/ \E n \in 1..MaxNodes : Children(n) /\ Identified

SpecIds == Init /\ [][NextIds]_vars

\* ------------------------------------------------- Observer (time travel)
\* alice = Observer(id='Alice', current=node): the trail starts at the node
NewObserver(n) ==
    /\ ~observer.made
    /\ n \in 1..Len(nodes)
    /\ observer' = [made |-> TRUE, current |-> n, trail |-> <<n>>, mode |-> "none",
                    left |-> 0]
    /\ calls' = <<>>
    /\ last' = Op("Observer", n, "", NoQubits, <<>>, "return", <<>>)
    /\ UNCHANGED <<nodes, hooks, uid>>

\* the observer moves to a child that children() of its current node gave:
\* the new current node is appended to the trail
Descend(c) ==
    /\ observer.made
    /\ Len(observer.trail) < MaxTrail
    /\ c \in {nodes[observer.current].children[i].v :
                 i \in 1..Len(nodes[observer.current].children)}
    /\ observer' = [observer EXCEPT !.current = c, !.trail = Append(@, c)]
    /\ calls' = <<>>
    /\ last' = Op("descend", c, "", NoQubits, <<>>, "return", <<>>)
    /\ UNCHANGED <<nodes, hooks, uid>>

Modes == {"branch", "overwrite"}

\* how far back the trail reaches from its last entry
TrailDepth(trail) == Len(trail) - 1

\* mutant: the jump always lands on the first entry of the trail
TravelTargetFirst(trail, steps) == trail[1]

\* the trail entry steps positions back
TravelTarget(trail, steps) == trail[Len(trail) - steps]

\* the trail is truncated to the target (overwrite) or retained (branch)
TravelTrail(trail, steps, mode) ==
    IF mode = "overwrite" THEN SubSeq(trail, 1, Len(trail) - steps) ELSE trail

\* observer.travel_back(steps, mode=mode); the log keeps the mode and steps,
\* and left the node the observer jumped from
TravelBack(steps, mode) ==
    /\ observer.made
    /\ calls' = <<>>
    /\ IF steps > TrailDepth(observer.trail)
       THEN /\ last' = Op("travel_back", observer.current, mode, NoQubits, <<>>,
                          "ValueError", <<steps>>)
            /\ UNCHANGED observer
       ELSE /\ last' = Op("travel_back", observer.current, mode, NoQubits, <<>>,
                          "return", <<steps>>)
            /\ observer' = [observer EXCEPT
                               !.current = TravelTarget(observer.trail, steps),
                               !.trail = TravelTrail(observer.trail, steps, mode),
                               !.mode = mode,
                               !.left = observer.current]
    /\ UNCHANGED <<nodes, hooks, uid>>

\* c.overwritten, read from a Universe: the value of the field, or the
\* AttributeError of a dataclass with slots that has no such field
Overwritten(u) ==
    IF "overwritten" \notin DOMAIN u THEN "AttributeError"
    ELSE IF u.overwritten THEN "True" ELSE "False"

\* the engine under an observer that starts at the root, walks down and
\* travels back; the tree is measured and expanded where the observer is,
\* through observer.current.measure(...) and observer.current.children()
TravelRawSystems ==
    { <<KV(<<0, 0>>, A1), KV(<<0, 1>>, A1), KV(<<1, 1>>, A2)>> }
TravelQubitArgs == {NoQubits, QubitList(<<0>>)}

NextTravel ==
    \/ \E raw \in TravelRawSystems, w \in RootWeights : CreateRoot(raw, w) /\ Engine
    \/ NewObserver(1)
    \/ \E obs \in Observables, q \in TravelQubitArgs :
          observer.made /\ Measure(observer.current, obs, q) /\ Engine
    \/ observer.made /\ Children(observer.current) /\ Engine
    \/ \E c \in 1..MaxNodes : Descend(c)
    \/ \E steps \in 0..MaxSteps, mode \in Modes : TravelBack(steps, mode)

SpecTravel == Init /\ [][NextTravel]_vars

\* the engine with several distinct transforms and creation observers
OrderHooks == {"g", "h"}
OrderRawSystems == { <<KV(<<0, 0>>, A1), KV(<<1, 1>>, A1)>> }
OrderObservables == {"a"}

NextOrder ==
    \/ \E raw \in OrderRawSystems, w \in RootWeights : CreateRoot(raw, w) /\ Engine
    \/ \E fn \in OrderHooks : RegisterDecoherenceModel(fn) /\ Engine
    \/ \E fn \in OrderHooks : RegisterUniverseCreationObserver(fn) /\ Engine
    \/ \E n \in 1..MaxNodes, obs \in OrderObservables : Measure(n, obs, NoQubits) /\ Engine
    \/ \E n \in 1..MaxNodes : Children(n) /\ Engine

SpecOrder == Init /\ [][NextOrder]_vars

\* the engine with a caller or plugin that rewrites amplitudes in place
\* node.system.amplitudes = {s: 0j for s in node.system.amplitudes}
\* (a field assignment: __post_init__ and normalize do not run again)
DampAmplitudes(n) ==
    /\ n \in 1..Len(nodes)
    /\ nodes' = [nodes EXCEPT ![n].system =
                    [i \in 1..Len(@) |-> KV(@[i].k, AmpZero)]]
    /\ calls' = <<>>
    /\ last' = Op("damp", n, "", NoQubits, <<>>, "return", <<>>)
    /\ UNCHANGED hooks

DampRawSystems ==
    { <<KV(<<0, 0>>, A1), KV(<<1, 1>>, A1)>>,
      <<KV(<<0, 0>>, A1), KV(<<0, 1>>, A1), KV(<<1, 1>>, A2)>> }
DampQubitArgs == {NoQubits, QubitList(<<0>>)}

NextDamp ==
    \/ \E raw \in DampRawSystems, w \in RootWeights : CreateRoot(raw, w) /\ Engine
    \/ \E n \in 1..MaxNodes, obs \in Observables, q \in DampQubitArgs : Measure(n, obs, q) /\ Engine
    \/ \E n \in 1..MaxNodes : Children(n) /\ Engine
    \/ \E n \in 1..MaxNodes : DampAmplitudes(n) /\ Engine

SpecDamp == Init /\ [][NextDamp]_vars

\* the engine with single outcomes expanded by hand
ExpandRawSystems == { <<KV(<<0, 0>>, A1), KV(<<0, 1>>, A1), KV(<<1, 1>>, A2)>> }
ExpandQubitArgs == {NoQubits, QubitList(<<0>>)}
ExpandObservables == {"a"}
ExpandLabels == {<<0>>, <<1>>, <<0, 0>>, <<1, 1>>}

NextExpand ==
    \/ \E raw \in ExpandRawSystems, w \in RootWeights : CreateRoot(raw, w) /\ Engine
    \/ \E fn \in HookNames : RegisterUniverseCreationObserver(fn) /\ Engine
    \/ \E n \in 1..MaxNodes, obs \in ExpandObservables, q \in ExpandQubitArgs : Measure(n, obs, q) /\ Engine
    \/ \E n \in 1..MaxNodes : Children(n) /\ Engine
    \/ \E n \in 1..MaxNodes, state \in ExpandLabels : ExpandChild(n, state) /\ Engine

SpecExpand == Init /\ [][NextExpand]_vars

\* ------------------------------------------------------------ properties
Exists(n) == n \in 1..Len(nodes)

ChildIds(u) == {u.children[i].v : i \in 1..Len(u.children)}

RECURSIVE SumWeights(_, _)
SumWeights(ids, i) ==
    IF i > Len(ids) THEN RZero ELSE RAdd(nodes[ids[i]].weight, SumWeights(ids, i + 1))

\* the node's pending table has been expanded into children and cleared
FullyExpanded(n) == ~nodes[n].pending.set /\ nodes[n].children # <<>>

\* the history entry of the measurement the node's branches come from
LastEntry(n) == nodes[n].history[Len(nodes[n].history)]

RemeasureIsNoOp ==
    [][\A n \in 1..Len(nodes) :
          (last'.op = "measure" /\ last'.node = n /\ last'.obs \in nodes[n].measured)
          => /\ last'.outcome = "already_measured"
             /\ last'.ret = <<>>
             /\ nodes' = nodes
             /\ calls' = <<>>]_vars

\* a second measure of a measured name, with an out-of-range qubit list, on
\* a node whose children are materialized
RemeasureWitness ==
    /\ last.op = "measure" /\ last.outcome = "already_measured"
    /\ last.qubits = QubitList(<<2>>)
    /\ nodes[last.node].children # <<>>
    /\ last.obs \in nodes[last.node].measured

ChildrenIdempotent ==
    [][last'.op = "children" =>
          LET n == last'.node IN
          /\ ~nodes'[n].pending.set
          /\ nodes[n].pending.set =>
                /\ Keys(nodes'[n].children) = Keys(nodes[n].pending.tab)
                /\ Len(nodes'[n].children) = Len(nodes[n].pending.tab)
          /\ ~nodes[n].pending.set =>
                /\ nodes' = nodes
                /\ calls' = <<>>
                /\ last'.ret = Values(nodes[n].children)]_vars

\* the node carries branches of its own latest measurement
OwnBranches(n) == nodes[n].pending.set \/ nodes[n].children # <<>>

\* q selects a strict part of the nq label positions
StrictSubset(q, nq) ==
    /\ q # <<>>
    /\ Len(q) < nq
    /\ \A i \in 1..Len(q) : q[i] \in 0..(nq - 1)
    /\ \A i, j \in 1..Len(q) : i # j => q[i] # q[j]

\* the labels of amps that read o on the positions q
Agreeing(amps, q, o) == {k \in Keys(amps) : Proj(k, q) = o}

RECURSIVE SumAgreeing(_, _, _, _)
SumAgreeing(amps, q, o, i) ==
    IF i > Len(amps) THEN RZero
    ELSE RAdd(IF Proj(amps[i].k, q) = o THEN amps[i].v.p ELSE RZero,
              SumAgreeing(amps, q, o, i + 1))

\* C5: a measurement of a strict subset Q followed by children() leaves one
\* child per projection onto Q of nonzero probability; the child's labels
\* are the parent's labels agreeing with its outcome on Q, its weight the
\* parent's weight times the summed probability of those labels.
PartialMeasurementChildren ==
    \A n \in 1..Len(nodes) :
        LET u == nodes[n]
            q == LastEntry(n).qubits
        IN (FullyExpanded(n) /\ StrictSubset(q, NumQubits(u.system))) =>
              LET outs == {Proj(u.system[i].k, q) :
                              i \in {j \in 1..Len(u.system) : u.system[j].v.p[1] # 0}}
              IN /\ Keys(u.children) = outs
                 /\ Len(u.children) = Cardinality(outs)
                 /\ \A i \in 1..Len(u.children) :
                       LET o == u.children[i].k
                           c == nodes[u.children[i].v]
                       IN /\ Keys(c.system) = Agreeing(u.system, q, o)
                          /\ c.weight = RMul(u.weight, SumAgreeing(u.system, q, o, 1))

\* the Bell state measured on position 0: children '00' and '11', 0.5 each
PartialMeasurementWitness ==
    /\ Exists(1) /\ FullyExpanded(1)
    /\ KeyList(nodes[1].system) = << <<0, 0>>, <<1, 1>> >>
    /\ LastEntry(1).qubits = <<0>>
    /\ Len(nodes[1].children) = 2
    /\ \A i \in 1..2 :
          /\ Len(nodes[nodes[1].children[i].v].system) = 1
          /\ nodes[nodes[1].children[i].v].weight = <<1, 2>>

RECURSIVE Descendants(_)
Descendants(n) == {n} \cup UNION {Descendants(c) : c \in ChildIds(nodes[n])}

RECURSIVE SumSetWeights(_)
SumSetWeights(S) ==
    IF S = {} THEN RZero
    ELSE LET x == CHOOSE y \in S : TRUE
         IN RAdd(nodes[x].weight, SumSetWeights(S \ {x}))

Leaves == {n \in Descendants(1) : nodes[n].children = <<>>}

OneNonzero(amps) == Cardinality({i \in 1..Len(amps) : amps[i].v.p[1] # 0}) = 1

\* C7 (as claimed): on a state that is not definite, children() after
\* measure(obs, qubits=[]) completes and gives the children of a whole-state
\* measurement: one per label of nonzero probability, collapsed onto that
\* label, weighted by it.
EmptyQubitsMeansWhole ==
    \A n \in 1..Len(nodes) :
        ( /\ last.op = "children" /\ last.node = n
          /\ OwnBranches(n)
          /\ LastEntry(n).ev = "measure" /\ LastEntry(n).qubits = <<>>
          /\ ~OneNonzero(nodes[n].system) )
        => LET u == nodes[n]
               live == PendingFrom(Probabilities(u.system), <<>>, 1)
           IN /\ last.outcome = "return"
              /\ KeyList(u.children) = KeyList(live)
              /\ \A i \in 1..Len(u.children) :
                    LET c == nodes[u.children[i].v]
                    IN /\ c.system = Normalize(CollapsedAmplitudes(u.system, live[i].k))
                       /\ c.weight = RMul(u.weight, live[i].v.prob)

\* the qubit argument names positions of the labels only
InRange(qarg, amps) ==
    \A i \in 1..Len(qarg.list) : \A k \in Keys(amps) : qarg.list[i] < Len(k)

\* C8 (as claimed): measure() of a not-yet-measured observable on a node
\* whose state has exactly one label of nonzero amplitude is a no-op.
DefiniteMeasureIsNoOp ==
    [][\A n \in 1..Len(nodes) :
          ( /\ last'.op = "measure" /\ last'.node = n
            /\ OneNonzero(nodes[n].system)
            /\ InRange(last'.qubits, nodes[n].system)
            /\ last'.obs \notin nodes[n].measured )
          => /\ last'.outcome = "definite"
             /\ nodes' = nodes]_vars

\* the calls of one kind among the hook calls cs
CallsOf(cs, kind) == SelectSeq(cs, LAMBDA c : c.kind = kind)

\* C9: each step calls the creation observers, in registration order, once
\* for every child it materializes, with that child (already stored in the
\* parent under the outcome label, and part of what children() returns) and
\* its label; a step that materializes nothing calls none.
CreationObserversOncePerChild ==
    [][last'.op # "create" =>
          LET new == (Len(nodes) + 1)..Len(nodes')
              cc == CallsOf(calls', "create")
          IN /\ Len(cc) = Cardinality(new) * Len(hooks.create)
             /\ \A c \in new :
                   LET mine == SelectSeq(cc, LAMBDA x : x.node = c)
                       p == nodes'[last'.node]
                   IN /\ [i \in 1..Len(mine) |-> mine[i].hook] = hooks.create
                      /\ \A i \in 1..Len(mine) :
                            /\ mine[i].stored
                            /\ Has(p.children, mine[i].state)
                            /\ Get(p.children, mine[i].state) = c
                      /\ \E i \in 1..Len(last'.ret) : last'.ret[i] = c]_vars

\* children() has just materialized two children under a registered observer
CreationObserversWitness ==
    /\ last.op = "children" /\ last.outcome = "return"
    /\ Len(hooks.create) > 0
    /\ Len(CallsOf(calls, "create")) = 2 * Len(hooks.create)
    /\ Len(last.ret) = 2

\* C10: a successful measure() calls every post-measurement hook once, in
\* registration order, with (node, observable), when the observable is
\* recorded, the pending table stored and the child map empty; a measure()
\* that records nothing calls no hook.
PostHooksAtMeasureTime ==
    last.op = "measure" =>
        IF last.outcome = "recorded"
        THEN /\ Len(calls) = Len(hooks.post)
             /\ \A i \in 1..Len(calls) :
                   /\ calls[i].kind = "post"
                   /\ calls[i].hook = hooks.post[i]
                   /\ calls[i].node = last.node
                   /\ calls[i].obs = last.obs
                   /\ calls[i].recorded
                   /\ calls[i].hasPending
                   /\ calls[i].nchildren = 0
        ELSE calls = <<>>

\* a successful measure() with a post-measurement hook registered
PostHooksWitness ==
    /\ last.op = "measure" /\ last.outcome = "recorded"
    /\ Len(hooks.post) > 0
    /\ Len(calls) = Len(hooks.post)

\* every amplitude of the dict is zero (an empty dict included)
AllZero(amps) == \A i \in 1..Len(amps) : amps[i].v.p[1] = 0

\* C12: QuantumSystem(amps) with every amplitude zero, or with no label at
\* all, raises the normalization error and creates nothing; no node ever
\* owns an all-zero state, be it built by a constructor or by a collapse.
ZeroAmplitudesRejected ==
    [][/\ \A raw \in RawSystems, w \in RootWeights :
             (AllZero(raw) /\ CreateRoot(raw, w))
                => (last'.outcome = "ValueError" /\ nodes' = nodes)
       /\ \A n \in 1..Len(nodes') : ~AllZero(nodes'[n].system)]_vars

\* the constructor has just refused a state
ZeroAmplitudesWitness ==
    /\ last.op = "create" /\ last.outcome = "ValueError"
    /\ nodes = <<>>

\* C13 (as claimed): measure() without a qubit list never raises, whatever
\* the lengths of the labels: it records the observable (or is the no-op of
\* a repeated observable or of a definite state), so that children() can
\* then yield one child per label of nonzero probability.
WholeMeasureAnyLabels ==
    (last.op = "measure" /\ ~last.qubits.given)
       => last.outcome \in {"recorded", "already_measured", "definite"}

\* the nodes that were children of n, or below them, before the step
OldSubtree(n) == Descendants(n) \ {n}

\* C20: a measure() that records a new observable on a node that has a
\* pending table or children leaves the node with an empty child map and
\* with the pending table of the new measurement only; the earlier children
\* keep existing but are no longer below the node, and the observables
\* measured earlier stay in the node's measured set.
RemeasureClearsBranches ==
    [][\A n \in 1..Len(nodes) :
          ( /\ last'.op = "measure" /\ last'.node = n
            /\ last'.outcome = "recorded"
            /\ OwnBranches(n) )
          => LET u == nodes'[n]
                 e == u.history[Len(u.history)]
             IN /\ u.children = <<>>
                /\ u.pending.set
                /\ KeyList(u.pending.tab) = e.outcomes
                /\ e.obs = last'.obs
                /\ Len(u.history) = Len(nodes[n].history) + 1
                /\ \A i \in 1..Len(u.pending.tab) :
                      u.pending.tab[i].v.qubits = e.qubits
                /\ u.measured = nodes[n].measured \cup {last'.obs}
                /\ nodes[n].measured # {}
                /\ \A c \in OldSubtree(n) : nodes'[c] = nodes[c]]_vars

\* a second observable has just been recorded on a node whose children of
\* the first one were materialized
RemeasureClearsWitness ==
    /\ last.op = "measure" /\ last.outcome = "recorded"
    /\ Cardinality(nodes[last.node].measured) = 2
    /\ nodes[last.node].children = <<>>
    /\ \E c \in 1..Len(nodes) : c \notin Descendants(1)

\* no plugin registered
NoHooks == [deco |-> <<>>, create |-> <<>>, post |-> <<>>]

\* the hooks called by the calls cs of one kind for the child c
HooksCalled(cs, kind, c) ==
    LET mine == SelectSeq(cs, LAMBDA x : x.kind = kind /\ x.node = c)
    IN [i \in 1..Len(mine) |-> mine[i].hook]

\* C11: whichever registered hooks raise, measure() and children() end as
\* they end with no hook registered and leave the nodes they leave with no
\* hook registered (observable recorded, pending table stored, every child
\* stored with its weight), and every registered hook is called: each
\* post-measurement hook once by a recording measure(), each decoherence
\* transform and each creation observer once per new child.
HookFailuresIsolated ==
    [][/\ last'.op = "measure" =>
            LET n == last'.node
                r == Apply(nodes[n], n, last'.obs, last'.qubits, <<>>)
            IN /\ last'.outcome = r.outcome
               /\ nodes' = [nodes EXCEPT ![n] = r.u]
               /\ r.outcome = "recorded" =>
                     [i \in 1..Len(calls') |-> calls'[i].hook] = hooks.post
       /\ last'.op = "children" =>
            LET n == last'.node
                r == ChildrenOp(nodes, NoHooks, n)
            IN /\ last'.outcome = IF r.err = "none" THEN "return" ELSE r.err
               /\ nodes' = r.nodes
               /\ \A c \in (Len(nodes) + 1)..Len(nodes') :
                     /\ HooksCalled(calls', "deco", c) = hooks.deco
                     /\ HooksCalled(calls', "create", c) = hooks.create]_vars

\* children() has returned two children although a hook raised, and a hook
\* registered after the raising one was called all the same
HookFailuresWitness ==
    /\ last.op = "children" /\ last.outcome = "return"
    /\ Len(last.ret) = 2
    /\ \E i, j \in 1..Len(calls) :
          /\ i < j
          /\ HookRaises(calls[i].hook)
          /\ calls[i].node = calls[j].node

\* the node dicts of a serialized tree, the tree's own dict included
RECURSIVE DictNodes(_)
DictNodes(d) == {d} \cup UNION {DictNodes(d.children[i]) : i \in 1..Len(d.children)}

RECURSIVE CountNodes(_)
CountNodes(d) ==
    IF d.children = <<>> THEN 1
    ELSE 1 + CountNodes(d.children[1])
           + CountNodes([d EXCEPT !.children = Tail(@)]) - 1

\* the dict d shows the node it stands for as the node is now
ShowsNode(d) ==
    /\ d.id \in 1..Len(nodes)
    /\ d = NodeDict(d.id, nodes[d.id], d.children)
    /\ [i \in 1..Len(d.children) |-> d.children[i].id] = Values(nodes[d.id].children)

\* C14 (as claimed): to_dict(expand_lazy=True) returns, leaves no node of
\* the subtree with a pending table, and returns exactly one node dict for
\* each node of the expanded subtree.
FullSerialization ==
    last.op = "to_dict(expand_lazy=True)" =>
        /\ last.outcome = "return"
        /\ \A m \in Descendants(last.node) : ~nodes[m].pending.set
        /\ CountNodes(last.ret[1]) = Cardinality(Descendants(last.node))
        /\ {d.id : d \in DictNodes(last.ret[1])} = Descendants(last.node)
        /\ \A d \in DictNodes(last.ret[1]) : ShowsNode(d)

\* C15: to_dict(expand_lazy=False) changes no node, creates none and calls
\* no hook; it returns one node dict for each node that is materialized
\* below the node when it is called, each with the children of the node's
\* child map (none for a node that has only a pending table).
SnapshotReadOnly ==
    [][last'.op = "to_dict(expand_lazy=False)" =>
          /\ nodes' = nodes
          /\ calls' = <<>>
          /\ last'.outcome = "return"
          /\ CountNodes(last'.ret[1]) = Cardinality(Descendants(last'.node))
          /\ {d.id : d \in DictNodes(last'.ret[1])} = Descendants(last'.node)
          /\ \A d \in DictNodes(last'.ret[1]) : ShowsNode(d)]_vars

\* a snapshot of a tree with children of which one has a pending table and
\* no children, taken with a creation observer registered
SnapshotWitness ==
    /\ last.op = "to_dict(expand_lazy=False)" /\ last.node = 1
    /\ hooks.create # <<>>
    /\ Len(last.ret[1].children) = 2
    /\ \E i \in 1..2 :
          /\ nodes[last.ret[1].children[i].id].pending.set
          /\ last.ret[1].children[i].children = <<>>

IdsUnique ==
    \A i, j \in 1..Len(uid) : i # j => uid[i] # uid[j]

\* the nodes the step creates
NewNodes == (Len(nodes) + 1)..Len(nodes')

\* C16 (as claimed): when the observer has travelled back in overwrite mode
\* from a node to an ancestor and a measurement on its current node has replaced materialized children,
\* the children that children() then gives carry overwritten = true, and
\* the nodes materialized before carry overwritten = false.
OverwriteMarksChild ==
    [][( /\ observer.made /\ observer.mode = "overwrite"
         /\ observer.left # observer.current
         /\ last.op = "measure" /\ last.outcome = "recorded"
         /\ last.node = observer.current
         /\ \E c \in 1..Len(nodes) : c \notin Descendants(1)
         /\ last'.op = "children" /\ last'.node = observer.current )
       => /\ last'.outcome = "return"
          /\ NewNodes # {}
          /\ \A c \in NewNodes : Overwritten(nodes'[c]) = "True"
          /\ \A c \in 1..Len(nodes) : Overwritten(nodes'[c]) = "False"]_vars

\* C17 (as claimed): once the observer has travelled back in branch mode
\* from a node to an ancestor,
\* measure() and children() on its current node leave every child the node
\* has in its child map, under its label and unchanged.
BranchKeepsChildren ==
    [][( /\ observer.made /\ observer.mode = "branch"
         /\ observer.left # observer.current
         /\ last'.op \in {"measure", "children"}
         /\ last'.node = observer.current )
       => LET old == nodes[observer.current].children
              new == nodes'[observer.current].children
          IN \A i \in 1..Len(old) :
                /\ Has(new, old[i].k)
                /\ Get(new, old[i].k) = old[i].v
                /\ nodes'[old[i].v] = nodes[old[i].v]]_vars

\* the list q names every position 0..nq-1 of a label
Covers(q, nq) == \A p \in 0..(nq - 1) : \E j \in 1..Len(q) : q[j] = p

\* the labels of amps with a nonzero amplitude
NonzeroLabels(amps) == {amps[i].k : i \in {j \in 1..Len(amps) : amps[j].v.p[1] # 0}}

\* C21 (as claimed): a recorded measurement with a nonempty qubit list (all
\* indices inside the label) is keyed by the full labels of nonzero
\* probability exactly when the list covers every position of the label;
\* any other list, such as [0,0] on 2-symbol labels, is keyed by the
\* projections of those labels onto the list.
CoverageDecides ==
    ( /\ last.op = "measure" /\ last.outcome = "recorded"
      /\ last.qubits.given /\ last.qubits.list # <<>>
      /\ InRange(last.qubits, nodes[last.node].system) )
    => LET u == nodes[last.node]
           q == last.qubits.list
       IN Keys(u.pending.tab) =
             IF Covers(q, NumQubits(u.system)) THEN NonzeroLabels(u.system)
             ELSE {Proj(k, q) : k \in NonzeroLabels(u.system)}

\* the calls among cs made with the child c
CallsWith(cs, c) == SelectSeq(cs, LAMBDA x : x.node = c /\ x.kind \in {"deco", "create"})

\* C22: for every child a step creates, the decoherence transforms are all
\* called with it, in registration order, while it is not yet stored under
\* its outcome label, and the creation observers are all called after them,
\* in registration order, once it is stored.
TransformsThenStoreThenObservers ==
    [][last'.op # "create" =>
          \A c \in NewNodes :
              LET mine == CallsWith(calls', c)
                  nd == Len(hooks.deco)
                  p == nodes'[last'.node]
              IN /\ [i \in 1..Len(mine) |-> mine[i].hook] = hooks.deco \o hooks.create
                 /\ \A i \in 1..Len(mine) :
                       /\ mine[i].kind = IF i <= nd THEN "deco" ELSE "create"
                       /\ mine[i].stored = (i > nd)
                       /\ Has(p.children, mine[i].state)
                       /\ Get(p.children, mine[i].state) = c]_vars

\* children() has created two children under two distinct transforms and two
\* distinct creation observers
TransformsThenStoreThenObserversWitness ==
    /\ last.op = "children" /\ last.outcome = "return"
    /\ Len(hooks.deco) = 2 /\ hooks.deco[1] # hooks.deco[2]
    /\ Len(hooks.create) = 2 /\ hooks.create[1] # hooks.create[2]
    /\ Len(calls) = 8
    /\ Len(nodes[last.node].children) = 2

\* C23: a node's history is only ever extended at its end and its measured
\* set only ever grows: a recording measure() appends exactly one entry (the
\* measurement of its observable) and adds exactly that observable; every
\* other step (a measure() that records nothing, children(), to_dict(),
\* whatever happens to other nodes) leaves the node's own history and
\* measured set as they were.
HistoryAppendOnly ==
    [][\A n \in 1..Len(nodes) :
          LET u == nodes[n]
              v == nodes'[n]
          IN IF last'.op = "measure" /\ last'.node = n /\ last'.outcome = "recorded"
             THEN /\ Len(v.history) = Len(u.history) + 1
                  /\ SubSeq(v.history, 1, Len(u.history)) = u.history
                  /\ v.history[Len(v.history)].ev = "measure"
                  /\ v.history[Len(v.history)].obs = last'.obs
                  /\ last'.obs \notin u.measured
                  /\ v.measured = u.measured \cup {last'.obs}
             ELSE /\ v.history = u.history
                  /\ v.measured = u.measured]_vars

\* a node that carries two measurements has been expanded and serialized
HistoryAppendOnlyWitness ==
    /\ last.op = "to_dict(expand_lazy=True)" /\ last.outcome = "return"
    /\ \E n \in 1..Len(nodes) :
          /\ Len(nodes[n].history) = 3
          /\ nodes[n].measured = {"a", "b"}
          /\ nodes[n].children # <<>>

\* C24: every child a step creates has the weight of its parent times the
\* pending probability of its outcome, and the history and measured set its
\* parent has at that moment; measuring on a child the observable its
\* siblings come from is a no-op; and a step on a node changes no other
\* existing node, so nothing done to a child changes its parent.
ChildInheritsFromParent ==
    [][/\ \A c \in (IF last'.op = "create" THEN {} ELSE NewNodes) :
             LET p == last'.node
                 state == CHOOSE k \in Keys(nodes'[p].children) :
                              Get(nodes'[p].children, k) = c
             IN /\ c \in ChildIds(nodes'[p])
                /\ Has(nodes[p].pending.tab, state)
                /\ nodes'[c].weight =
                       RMul(nodes[p].weight, Get(nodes[p].pending.tab, state).prob)
                /\ nodes'[c].history = nodes[p].history
                /\ nodes'[c].measured = nodes[p].measured
       /\ \A p \in 1..Len(nodes) : \A c \in ChildIds(nodes[p]) :
             (last'.op = "measure" /\ last'.node = c /\ last'.obs = LastEntry(p).obs)
             => last'.outcome = "already_measured" /\ nodes' = nodes
       /\ \A m \in 1..Len(nodes) : m # last'.node => nodes'[m] = nodes[m]]_vars

\* a child of weight below that of its parent has been measured under a new
\* observable and expanded in turn, and its parent still records one
\* measurement only
ChildInheritsWitness ==
    /\ last.op = "children" /\ last.outcome = "return"
    /\ \E p \in 1..Len(nodes) :
          /\ last.node \in ChildIds(nodes[p])
          /\ nodes[last.node].children # <<>>
          /\ nodes[last.node].weight # nodes[p].weight
          /\ Len(nodes[last.node].history) = 3
          /\ Len(nodes[p].history) = 2
          /\ Cardinality(nodes[p].measured) = 1

\* C25: no step of measure(), children() or to_dict() changes the amplitude
\* state or the weight of a node that exists: a measured node keeps its
\* superposition, only its children are collapsed.
StateAndWeightFixed ==
    [][\A n \in 1..Len(nodes) :
          /\ nodes'[n].system = nodes[n].system
          /\ nodes'[n].weight = nodes[n].weight]_vars

\* a node in superposition that was measured and expanded, then serialized
\* with expansion, still has several labels of nonzero amplitude
StateAndWeightWitness ==
    /\ last.op = "to_dict(expand_lazy=True)" /\ last.outcome = "return"
    /\ Cardinality(NonzeroLabels(nodes[last.node].system)) = 3
    /\ Len(nodes[last.node].children) = 2
    /\ \A c \in ChildIds(nodes[last.node]) :
          Cardinality(NonzeroLabels(nodes[c].system)) < 3

\* C26: a child is definite on the qubits its parent's measurement read:
\* measuring that same qubit list on the child under an observable the
\* child has not recorded returns by the definite test, records nothing,
\* stores no pending table and changes no node, so no grandchild can come
\* of it.
ChildDefiniteOnMeasured ==
    [][\A p \in 1..Len(nodes) : \A c \in ChildIds(nodes[p]) :
          ( /\ last'.op = "measure" /\ last'.node = c
            /\ last'.obs \notin nodes[c].measured
            /\ ~NumQubitsRaises(nodes[c].system)
            /\ EffectiveQubits(last'.qubits, NumQubits(nodes[c].system))
                  = LastEntry(p).qubits )
          => /\ last'.outcome = "definite"
             /\ last'.ret = <<>>
             /\ nodes' = nodes
             /\ ~nodes'[c].pending.set
             /\ nodes'[c].children = <<>>]_vars

\* the child of a one-qubit measurement, still in superposition on the other
\* qubit, has been measured again on that one qubit under a new observable
ChildDefiniteWitness ==
    /\ last.op = "measure" /\ last.outcome = "definite"
    /\ last.qubits = QubitList(<<0>>)
    /\ last.obs \notin nodes[last.node].measured
    /\ Cardinality(NonzeroLabels(nodes[last.node].system)) = 2
    /\ \E p \in 1..Len(nodes) :
          /\ last.node \in ChildIds(nodes[p])
          /\ LastEntry(p).qubits = <<0>>

FatalLeavesNodeIntact ==
    [][/\ (last'.op = "measure" /\ last'.outcome \in {"ValueError", "IndexError"})
          => nodes' = nodes
       /\ (last'.op = "children" /\ last'.outcome # "return")
          => LET u == nodes[last'.node]
                 v == nodes'[last'.node]
             IN /\ v.pending = u.pending
                /\ v.pending.set
                /\ \E k \in Keys(v.pending.tab) : ~Has(v.children, k)
                /\ Len(v.children) - Len(u.children) = Len(nodes') - Len(nodes)
                /\ ChildIds(v) \subseteq 1..Len(nodes')
                /\ v.history = u.history
                /\ v.measured = u.measured
                /\ v.system = u.system]_vars

\* children() has raised on a node whose pending table is still in place
FatalLeavesNodeIntactWitness ==
    /\ last.op = "children" /\ last.outcome = "ValueError"
    /\ nodes[last.node].pending.set
    /\ nodes[last.node].children = <<>>
    /\ Len(nodes[last.node].history) = 2

\* measure() has raised on an index past the label on a node that carries
\* the children of an earlier measurement
FatalMeasureWitness ==
    /\ last.op = "measure" /\ last.outcome = "IndexError"
    /\ nodes[last.node].children # <<>>

\* C29 (as claimed): _expand_child(state) returns the stored child, creating
\* no node and calling no hook, whenever the node's child map holds a child
\* for state, also once children() has completed; it raises only when state
\* is neither pending nor materialized.
ExpandReturnsStoredChild ==
    [][last'.op = "_expand_child" =>
          LET u == nodes[last'.node]
              state == last'.state
          IN /\ Has(u.children, state)
                => /\ last'.outcome = "return"
                   /\ last'.ret = <<Get(u.children, state)>>
                   /\ nodes' = nodes
                   /\ calls' = <<>>
             /\ last'.outcome = "ValueError"
                => ~Has(u.children, state)
                   /\ (~u.pending.set \/ ~Has(u.pending.tab, state))]_vars

\* C29 (amended): _expand_child(state) returns the stored child, creating no
\* node and calling no hook, whenever state is in the node's pending table
\* and the child map holds a child for it; it raises ValueError and changes
\* nothing whenever the node has no pending table or the table lacks state,
\* also when a child for state is materialized, as after children().
ExpandNeedsPendingEntry ==
    [][last'.op = "_expand_child" =>
          LET u == nodes[last'.node]
              state == last'.state
              pending == u.pending.set /\ Has(u.pending.tab, state)
          IN /\ (pending /\ Has(u.children, state))
                => /\ last'.outcome = "return"
                   /\ last'.ret = <<Get(u.children, state)>>
                   /\ nodes' = nodes
                   /\ calls' = <<>>
             /\ ~pending
                => /\ last'.outcome = "ValueError"
                   /\ nodes' = nodes
                   /\ calls' = <<>>]_vars

\* with a creation observer registered, _expand_child has returned a child
\* without calling it: the child was stored and its outcome still pending
ExpandNeedsPendingEntryWitness ==
    /\ last.op = "_expand_child" /\ last.outcome = "return"
    /\ hooks.create # <<>>
    /\ calls = <<>>
    /\ nodes[last.node].pending.set
    /\ Has(nodes[last.node].children, last.state)

\* _expand_child has raised for an outcome whose child is materialized
ExpandRaisesOnStoredWitness ==
    /\ last.op = "_expand_child" /\ last.outcome = "ValueError"
    /\ Has(nodes[last.node].children, last.state)

====
